---- MODULE Spec2Model ----
(***************************************************************************)
(* Retraining scheduler + model version manager of the churn predictor.    *)
(*                                                                         *)
(*   backend/app/services/scheduler_service.py   IntegratedRetrainingScheduler *)
(*   backend/app/services/model_versioning.py    ModelVersionManager       *)
(*   backend/app/services/data_export.py         export / stats queries    *)
(*   backend/app/services/model_interface.py     retrain_model, predict    *)
(*   backend/app/services/preprocesser.py        scaler fit / load         *)
(*   backend/app/routes/feedback_routes.py       label writes              *)
(*                                                                         *)
(* Time is a counter of clock ticks; TicksPerSec ticks make one second, so *)
(* that a strftime("%Y%m%d_%H%M%S") stamp is Sec(t) while an isoformat()   *)
(* timestamp keeps the full resolution t.                                  *)
(***************************************************************************)
EXTENDS Integers, Sequences, FiniteSets, TLC

\* ---------------------------------------------------------------- bounds
NCust == 1
MaxTime == 2
MaxVMTime == 3
MaxCycles == 2
MaxSaves == 4
MaxPredicts == 2
MaxBoots == 1
MaxMetric == 1
MaxRetrains == 2
TicksPerSec == 2

\* ------------------------------------------------------ program constants
\* ModelVersionManager(ML_MODELS_DIR, max_versions=3)
max_versions == 3
\* add_job(...) without max_instances: APScheduler's job default
max_instances == 1
\* Python None (last_training_time, temp_csv before assignment)
None == -1
\* os.path.exists(path) is False
NoFile == 0
\* the artifact pair shipped with the deployment (not produced by a cycle)
Shipped == 1

Customers == 1..NCust
DirIds == 0..(MaxTime + MaxVMTime)

VARIABLES
    now,                 \* the clock, in ticks
    labels,              \* customer_labels table: id -> row
    last_training_time,  \* scheduler.last_training_time (None or a time)
    training_count,      \* scheduler.training_count
    enabled,             \* scheduler.enabled
    running,             \* scheduler.scheduler.running (the APScheduler timer)
    app,                 \* scheduler.app is set (init_scheduler ran, enabled in config)
    version_manager,     \* scheduler.version_manager is set
    pc,                  \* position of the retrain_job instance
    job,                 \* locals of the running retrain_job
    instances,           \* running instances of job 'retrain_job' in the executor
    fire,                \* what the last timer trigger did
    cycles,              \* retrain_job invocations so far
    escaped,             \* an exception has left retrain_job
    MODEL,               \* ml_models/model.keras: NoFile or the run that wrote it
    SCALER,              \* ml_models/scaler.pkl:  NoFile or the run that wrote it
    csv_files,           \* existing training_data_<stamp>.csv files
    metadata,            \* versions_metadata.json: the "versions" list
    version_dirs,        \* versions/v_<id>: "none" | "partial" | "files"
    evicted,             \* records removed from the list by pruning (history)
    saves,               \* save_new_version calls so far
    save_failed,         \* some save_new_version call raised (history)
    last_save,           \* what the last save_new_version call returned (history)
    ppc,                 \* position of the in-flight predict() call
    p_model,             \* the model predict() loaded
    pred,                \* result of the last predict() call
    predicts,            \* predict() calls so far
    last_cycle,          \* summary of the last finished retrain_job (history)
    untrained,           \* customers whose latest label write no successful cycle consumed
    missed,              \* untrained customers the last export left out
    boots,               \* process restarts so far
    stop_pc,             \* position of the in-flight scheduler.stop() call
    timer_jobs,          \* jobs in the job store of scheduler.scheduler
    status,              \* result of the last get_status() / health_check request
    exp,                 \* result of the last direct export_labeled_data_to_csv call
    retrain,             \* result of the last direct retrain_model call
    metrics,             \* the "metrics" dict of a stored version
    summary              \* what get_version_summary() reported for that version

vars == << now, labels, last_training_time, training_count, enabled, running, app,
           version_manager, pc, job, instances, fire, cycles, escaped, MODEL, SCALER,
           csv_files, metadata, version_dirs, evicted, saves, save_failed, last_save,
           ppc, p_model, pred, predicts, last_cycle, untrained, missed,
           boots, stop_pc, timer_jobs, status, exp, retrain, metrics, summary >>

schedVars == << last_training_time, training_count, enabled, running, app, version_manager >>
jobVars   == << pc, job, instances, fire, cycles, escaped, last_cycle >>
fileVars  == << MODEL, SCALER, csv_files >>
vmVars    == << metadata, version_dirs, evicted, saves, save_failed, last_save >>
predVars  == << ppc, p_model, pred, predicts >>
dataVars  == << labels, untrained, missed >>
lifeVars  == << boots, stop_pc, timer_jobs, status >>
callVars  == << exp, retrain, metrics, summary >>

Sec(t) == t \div TicksPerSec

\* ------------------------------------------------------------ label store
NoLabel == [has |-> FALSE, created_at |-> 0, updated_at |-> 0]

\* CustomerLabel(id, target): created_at and updated_at default to utcnow
NewLabel(t) == [has |-> TRUE, created_at |-> t, updated_at |-> t]

\* existing_label.target = target; commit: when the target changed, the row is
\* written and onupdate stamps updated_at (an unchanged target writes nothing)
UpdatedLabel(l, t) == [l EXCEPT !.updated_at = t]

\* ------------------------------------------------------------- exporter
\* mutant: the filter looks at the creation time only
InWindow_m(l, since) == l.created_at >= since

\* db.or_(CustomerLabel.created_at >= since, CustomerLabel.updated_at >= since)
InWindow(l, since) == l.created_at >= since \/ l.updated_at >= since

\* the query of export_labeled_data_to_csv: inner join, optional time filter
ExportRows(since, include_all) ==
    { c \in Customers :
        /\ labels[c].has
        /\ (since # None /\ ~include_all) => InWindow(labels[c], since) }

\* mutant: an empty result is returned as zero stats whatever the mode
EmptyRaises_m(include_all) == FALSE

\* lines 53-65: no row matched; "if not include_all" returns the zero stats,
\* else ValueError("No labeled customer data found in database")
EmptyRaises(include_all) == include_all

\* what export_labeled_data_to_csv returns or raises, and whether it wrote the file
ExportResult(since, include_all, db_ok) ==
    LET rows == ExportRows(since, include_all) IN
    IF ~db_ok
    THEN [raised |-> TRUE, written |-> FALSE, total_records |-> 0, rows |-> {}]
    ELSE IF rows = {}
    THEN [raised |-> EmptyRaises(include_all), written |-> FALSE,
          total_records |-> 0, rows |-> {}]
    ELSE [raised |-> FALSE, written |-> TRUE,
          total_records |-> Cardinality(rows), rows |-> rows]

\* lines 110-115 over the exported rows; tgt is the target column, which no
\* other step reads: 'churned' is the sum of TARGET, 'not_churned' the rest
ExportStats(rows, tgt) ==
    LET churned == Cardinality({ c \in rows : tgt[c] }) IN
    [total_records |-> Cardinality(rows), churned |-> churned,
     not_churned |-> Cardinality(rows) - churned]

\* get_labeled_data_stats()['total_labels']
TotalLabels == Cardinality({ c \in Customers : labels[c].has })

\* ------------------------------------------------------ version manager
NewRecord(t, run, training_mode) ==
    [version_id |-> Sec(t), timestamp |-> t, run |-> run, training_mode |-> training_mode]

RECURSIVE InsertSorted(_, _)
InsertSorted(x, s) ==
    IF s = << >> THEN << x >>
    ELSE IF Head(s).timestamp >= x.timestamp
         THEN << Head(s) >> \o InsertSorted(x, Tail(s))
         ELSE << x >> \o s

\* list.sort(key=timestamp, reverse=True): stable, newest first
RECURSIVE SortByTimestampDesc(_)
SortByTimestampDesc(s) ==
    IF s = << >> THEN << >>
    ELSE InsertSorted(s[Len(s)], SortByTimestampDesc(SubSeq(s, 1, Len(s) - 1)))

\* metadata["versions"][self.max_versions:]
OldVersions(sorted) ==
    IF Len(sorted) > max_versions
    THEN SubSeq(sorted, max_versions + 1, Len(sorted))
    ELSE << >>

\* metadata["versions"][:self.max_versions]
KeptVersions(sorted) ==
    IF Len(sorted) > max_versions THEN SubSeq(sorted, 1, max_versions) ELSE sorted

\* Path(old_version["model_path"]).parent
DirOf(rec) == rec.version_id

\* datetime.utcnow() read by a call is later than the reading of every earlier
\* call (a call copies files and writes the metadata: it takes time)
ClockMovedOn(md, t) == \A i \in DOMAIN md : md[i].timestamp < t

\* the points at which a call may raise
FailPoints(md, src_ok) ==
    IF ~src_ok THEN {"copy"}
    ELSE {"none", "copy", "load", "write"}
            \cup (IF Len(md) >= max_versions THEN {"rmtree"} ELSE {})

\* save_new_version called at time t; failAt is where (if anywhere) it raises
SaveNewVersion(md, dirs, t, run, training_mode, failAt) ==
    LET rec    == NewRecord(t, run, training_mode)
        vid    == rec.version_id
        copied == [dirs EXCEPT ![vid] =
                     IF failAt = "copy" THEN (IF @ = "files" THEN "files" ELSE "partial")
                     ELSE "files"]
        sorted == SortByTimestampDesc(Append(md, rec))
        old    == OldVersions(sorted)
        oldDirs == { DirOf(old[i]) : i \in DOMAIN old }
        pruned == [d \in DOMAIN copied |-> IF d \in oldDirs THEN "none" ELSE copied[d]]
    IN  CASE failAt = "copy"   -> [raised |-> TRUE, metadata |-> md, version_dirs |-> copied,
                                   evicted |-> {}, record |-> rec]
          [] failAt = "load"   -> [raised |-> TRUE, metadata |-> md, version_dirs |-> copied,
                                   evicted |-> {}, record |-> rec]
          [] failAt = "rmtree" -> [raised |-> TRUE, metadata |-> md, version_dirs |-> copied,
                                   evicted |-> {}, record |-> rec]
          [] failAt = "write"  -> [raised |-> TRUE, metadata |-> md, version_dirs |-> pruned,
                                   evicted |-> {}, record |-> rec]
          [] OTHER             -> [raised |-> FALSE, metadata |-> KeptVersions(sorted),
                                   version_dirs |-> pruned,
                                   evicted |-> { old[i] : i \in DOMAIN old }, record |-> rec]

\* get_latest_version() of an empty list
NoRecord == [version_id |-> None, timestamp |-> None, run |-> NoFile,
             training_mode |-> "none"]

\* no save_new_version call has returned yet
NoSave == [returned |-> FALSE, record |-> NoRecord, failed |-> "none", dir |-> None]

\* how a save_new_version call ended: with its record returned (line 118), or
\* raising (120-122), during the copy or after it with the metadata file not
\* written; dir is the version_dir it worked in
LastSave(r, failAt) ==
    IF r.raised
    THEN [returned |-> FALSE, record |-> NoRecord,
          failed |-> IF failAt = "copy" THEN "copy" ELSE "after_copy",
          dir |-> DirOf(r.record)]
    ELSE [returned |-> TRUE, record |-> r.record, failed |-> "none",
          dir |-> DirOf(r.record)]

\* mutant: the oldest stored record is returned
GetLatestVersion_m(md) == IF md # << >> THEN md[Len(md)] ELSE NoRecord

\* get_latest_version(): metadata["versions"][0], or None
GetLatestVersion(md) == IF md # << >> THEN md[1] ELSE NoRecord

\* list_versions(): metadata["versions"] as stored
ListVersions(md) == md

\* the metrics get_version_summary reports, and the values a metric can have
\* (0 stands for 0.0); None is a key that is not in the dict
MetricNames == {"accuracy", "auc", "recall", "precision"}
MetricValues == 0..MaxMetric

\* a version whose metrics are not stored yet
NoMetrics == [val |-> [n \in MetricNames |-> None], train |-> [n \in MetricNames |-> None],
              stored |-> FALSE]

NoSummary == [done |-> FALSE, value |-> [n \in MetricNames |-> None]]

\* Python's "a or b": b when a is falsy (None, 0, 0.0), else a
PyOr(a, b) == IF a = None \/ a = 0 THEN b ELSE a

\* get_version_summary lines 205-208, for one version:
\* v["metrics"].get("val_<name>") or v["metrics"].get("<name>")
GetVersionSummary(m) == [n \in MetricNames |-> PyOr(m.val[n], m.train[n])]

\* ------------------------------------------------------ model interface
NoPrediction == [status |-> "none", model |-> NoFile, scaler |-> NoFile,
                 model_file |-> NoFile, scaler_file |-> NoFile]

\* mutant: the scalers are loaded without looking for the file first
Predict_m(model_file, scaler_file) ==
    IF model_file = NoFile
    THEN [status |-> "model_not_found", model |-> NoFile, scaler |-> NoFile,
          model_file |-> model_file, scaler_file |-> scaler_file]
    ELSE [status |-> "ok", model |-> model_file, scaler |-> scaler_file,
          model_file |-> model_file, scaler_file |-> scaler_file]

\* predict() over the files at its two paths: model_file is what model_path
\* holds when it is loaded, scaler_file what scaler_path holds when
\* preprocess_with_scalers looks for it
Predict(model_file, scaler_file) ==
    IF model_file = NoFile
    THEN [status |-> "model_not_found", model |-> NoFile, scaler |-> NoFile,
          model_file |-> model_file, scaler_file |-> scaler_file]
    ELSE IF scaler_file = NoFile
    THEN [status |-> "scaler_not_found", model |-> NoFile, scaler |-> NoFile,
          model_file |-> model_file, scaler_file |-> scaler_file]
    ELSE [status |-> "ok", model |-> model_file, scaler |-> scaler_file,
          model_file |-> model_file, scaler_file |-> scaler_file]

\* what new_data_path can hold
Snapshots == {"absent", "no_target", "ok"}

NoRetrain == [calls |-> 0, snapshot |-> "ok", error |-> "none",
              model_before |-> NoFile, scaler_before |-> NoFile]

\* mutant: the data is preprocessed before the target column is looked for
RetrainModel_m(snapshot, failAt, model, scaler, run) ==
    IF snapshot = "absent"
    THEN [error |-> "FileNotFoundError", MODEL |-> model, SCALER |-> scaler]
    ELSE IF failAt = "preprocess"
    THEN [error |-> "other", MODEL |-> model, SCALER |-> scaler]
    ELSE IF snapshot = "no_target"
    THEN [error |-> "ValueError", MODEL |-> model, SCALER |-> run]
    ELSE IF failAt = "fit"
    THEN [error |-> "other", MODEL |-> model, SCALER |-> run]
    ELSE [error |-> "none", MODEL |-> run, SCALER |-> run]

\* retrain_model(new_data_path): what it raises and what it leaves at
\* MODEL_PATH and SCALER_PATH; failAt is the step that raises, if one does
RetrainModel(snapshot, failAt, model, scaler, run) ==
    IF snapshot = "absent"
    THEN [error |-> "FileNotFoundError", MODEL |-> model, SCALER |-> scaler]
    ELSE IF snapshot = "no_target"
    THEN [error |-> "ValueError", MODEL |-> model, SCALER |-> scaler]
    ELSE IF failAt = "preprocess"
    THEN [error |-> "other", MODEL |-> model, SCALER |-> scaler]
    ELSE IF failAt = "fit"
    THEN [error |-> "other", MODEL |-> model, SCALER |-> run]
    ELSE [error |-> "none", MODEL |-> run, SCALER |-> run]

\* ------------------------------------------------------------- scheduler
IdleJob == [temp_csv |-> None, since |-> None, rows |-> {}, covered |-> {},
            ltt0 |-> None, count0 |-> 0, load_existing |-> FALSE,
            trainer_called |-> FALSE, empty_window |-> FALSE,
            exported |-> FALSE, include_all |-> FALSE, no_data |-> FALSE]

NoCycle == [outcome |-> "none", since |-> None, rows |-> {}, advanced |-> FALSE,
            trainer_called |-> FALSE, version_saved |-> FALSE, version_failed |-> FALSE,
            empty_window |-> FALSE, cold |-> FALSE, exported |-> FALSE,
            include_all |-> FALSE, since_is_mark |-> FALSE, no_data |-> FALSE,
            load_existing |-> FALSE]

Failures == {"stats_failed", "export_failed", "trainer_failed", "version_failed"}

\* mutant: the job is submitted whatever is running
CanSubmit_m(n) == TRUE

\* the executor's check before it submits a triggered job
CanSubmit(n) == n < max_instances

\* mutant: the clause catches the exporter's ValueError only
Caught_m(outcome) == outcome = "export_failed"

\* the clause "except Exception as e" around the whole cycle
Caught(outcome) == TRUE

\* mutant: the tracking update sits in a finally block
TrackingAfter_m(outcome) ==
    IF outcome \in {"success", "trainer_failed"}
    THEN [ltt |-> now, count |-> training_count + 1]
    ELSE [ltt |-> last_training_time, count |-> training_count]

\* mutant: a failed cycle resets the high-water mark to force a full export
TrackingAfter_reset(outcome) ==
    IF outcome = "success"
    THEN [ltt |-> now, count |-> training_count + 1]
    ELSE [ltt |-> None, count |-> training_count]

\* lines 125-128 run only when nothing raised before them
TrackingAfter(outcome) ==
    IF outcome = "success"
    THEN [ltt |-> now, count |-> training_count + 1]
    ELSE [ltt |-> last_training_time, count |-> training_count]

\* mutant: the failure of save_new_version reaches the outer except clause
VersioningOutcome_m(raised) == IF raised THEN "version_failed" ELSE "success"

\* lines 122-123: "except Exception as e: logger.warning(...)" around
\* save_new_version; the cycle goes on to the tracking update
VersioningOutcome(raised) == "success"

\* mutant: the empty-export return is missing
SkipOnEmpty_m(total_records) == FALSE

\* if export_stats['total_records'] == 0: ... return
SkipOnEmpty(total_records) == total_records = 0

\* mutant: the cycle goes on to the export with nothing labeled
NoLabeledData_m(total_labels) == FALSE

\* lines 53-55: if stats['total_labels'] == 0: ... return
NoLabeledData(total_labels) == total_labels = 0

\* mutant: every cycle exports all labeled data
ExportMode_m(ltt) == [include_all |-> TRUE, since |-> None]

\* lines 64-76: "if self.last_training_time is None" picks the export call
ExportMode(ltt) ==
    IF ltt = None
    THEN [include_all |-> TRUE, since |-> None]
    ELSE [include_all |-> FALSE, since |-> ltt]

\* line 107: "initial" if self.last_training_time is None else "incremental"
TrainingMode(ltt) == IF ltt = None THEN "initial" ELSE "incremental"

\* mutant: previous weights are loaded only after a first training
LoadExisting_m(model, ltt) == ltt # None

\* line 92: load_existing=os.path.exists(MODEL_PATH)
LoadExisting(model, ltt) == model # NoFile

\* the window is empty: last_training_time is set, no label written since
EmptyWindow ==
    /\ last_training_time # None
    /\ \A c \in Customers :
         labels[c].has =>
            /\ labels[c].created_at < last_training_time
            /\ labels[c].updated_at < last_training_time

\* leave retrain_job: by return, or through the except clause
EndCycle(outcome, j, version_saved, version_failed) ==
    LET tr == TrackingAfter(outcome) IN
    /\ last_training_time' = tr.ltt
    /\ training_count' = tr.count
    /\ pc' = "idle"
    /\ job' = IdleJob
    /\ escaped' = (escaped \/ (outcome \in Failures /\ ~Caught(outcome)))
    /\ last_cycle' = [outcome |-> outcome,
                      since |-> IF outcome \in Failures THEN j.since ELSE None,
                      rows |-> IF outcome \in Failures THEN j.rows ELSE {},
                      advanced |-> (tr.ltt # j.ltt0 \/ tr.count # j.count0),
                      trainer_called |-> j.trainer_called,
                      version_saved |-> version_saved,
                      version_failed |-> version_failed,
                      empty_window |-> j.empty_window,
                      cold |-> (j.ltt0 = None),
                      exported |-> j.exported,
                      include_all |-> j.include_all,
                      since_is_mark |-> (j.exported /\ j.since = j.ltt0),
                      no_data |-> j.no_data,
                      load_existing |-> j.load_existing]
    /\ untrained' = IF outcome = "success" THEN untrained \ j.covered ELSE untrained

\* mutant: the time is rebuilt from version_id, which has whole seconds only
RestoredTime_m(rec) == rec.version_id * TicksPerSec

\* datetime.fromisoformat(latest_version['timestamp']): isoformat() kept every
\* digit of the clock reading, so parsing gives that reading back
RestoredTime(rec) == rec.timestamp

\* init_scheduler lines 249-259: what a new process starts from
RestoredTracking(md, enable_scheduler) ==
    LET latest_version == GetLatestVersion(md) IN
    IF enable_scheduler /\ latest_version # NoRecord
    THEN [ltt |-> RestoredTime(latest_version), count |-> Len(ListVersions(md))]
    ELSE [ltt |-> None, count |-> 0]

\* mutant: the before_request hook is registered whatever the configuration
HookRegistered_m(enable_scheduler) == TRUE

\* init_scheduler lines 235-240 and 262-267: "if not enable_scheduler: return"
\* comes before the hook start_scheduler_once is registered
HookRegistered(enable_scheduler) == enable_scheduler

\* add_job(..., id='retrain_job', replace_existing=True): a job stored under
\* that id is replaced, so the store holds one job afterwards
AddJob(jobs) == IF jobs = 0 THEN 1 ELSE jobs

\* jobs[0].next_run_time of the armed interval job: some time ahead
Pending == 1

\* get_status() lines 198-211, from self.enabled and self.scheduler.running
GetStatus(en, sched_running) ==
    [enabled |-> en,
     running |-> IF en THEN sched_running ELSE FALSE,
     next_run_time |-> IF en /\ sched_running THEN Pending ELSE None]

\* mutant: the health check looks at the enabled flag only
IsHealthy_m(st) == st.enabled

\* health_check line 65: is_healthy = status['enabled'] and status['running']
IsHealthy(st) == st.enabled /\ st.running

\* health_check line 72: 200 if is_healthy else 503
HttpCode(is_healthy) == IF is_healthy THEN 200 ELSE 503

\* where the scheduler is in its life when a request reads it
Lifecycle ==
    IF stop_pc = "shutdown" THEN "stopping"
    ELSE IF enabled THEN "started"
    ELSE IF stop_pc = "returned" THEN "after_stop"
    ELSE "before_start"

NoExport == [called |-> FALSE, db_ok |-> FALSE, include_all |-> FALSE, since |-> None,
             matched |-> 0, raised |-> FALSE, written |-> FALSE, rows |-> {},
             total_records |-> 0, churned |-> 0, not_churned |-> 0]

NoStatus == [asked |-> FALSE, enabled |-> FALSE, running |-> FALSE, next_run_time |-> None,
             healthy |-> FALSE, code |-> 0, timer |-> FALSE, lifecycle |-> "before_start"]

Init ==
    /\ now = 0
    /\ labels = [c \in Customers |-> NoLabel]
    /\ last_training_time = None
    /\ training_count = 0
    /\ enabled = FALSE
    /\ running = FALSE
    /\ app \in BOOLEAN
    /\ version_manager = app
    /\ pc = "idle"
    /\ job = IdleJob
    /\ instances = 0
    /\ fire = "none"
    /\ cycles = 0
    /\ escaped = FALSE
    /\ MODEL \in {NoFile, Shipped}
    /\ SCALER = MODEL
    /\ csv_files = {}
    /\ metadata = << >>
    /\ version_dirs = [d \in DirIds |-> "none"]
    /\ evicted = {}
    /\ saves = 0
    /\ save_failed = FALSE
    /\ last_save = NoSave
    /\ ppc = "idle"
    /\ p_model = NoFile
    /\ pred = NoPrediction
    /\ predicts = 0
    /\ last_cycle = NoCycle
    /\ untrained = {}
    /\ missed = {}
    /\ boots = 0
    /\ stop_pc = "idle"
    /\ timer_jobs = 0
    /\ status = NoStatus
    /\ exp = NoExport
    /\ retrain = NoRetrain
    /\ metrics = NoMetrics
    /\ summary = NoSummary

\* the wall clock advances
Tick ==
    /\ now < MaxTime
    /\ now' = now + 1
    /\ UNCHANGED << lifeVars, callVars, schedVars, jobVars, fileVars, vmVars, predVars, dataVars >>

\* POST /api/feedback/add-label for an existing customer: a new label, or an
\* existing label whose target is changed
AddLabel ==
    \E c \in Customers :
        /\ labels' = [labels EXCEPT ![c] =
                        IF labels[c].has THEN UpdatedLabel(@, now) ELSE NewLabel(now)]
        /\ untrained' = untrained \cup {c}
        /\ job' = [job EXCEPT !.covered = @ \ {c}]
        /\ UNCHANGED << lifeVars, callVars, now, schedVars, pc, instances, fire, cycles, escaped, last_cycle,
                        fileVars, vmVars, predVars, missed >>

\* scripts/init_db.py: every customer of the data set is inserted with its label
\* into a database that holds none yet
LoadLabels ==
    /\ \A c \in Customers : ~labels[c].has
    /\ labels' = [c \in Customers |-> NewLabel(now)]
    /\ untrained' = Customers
    /\ UNCHANGED << lifeVars, callVars, now, schedVars, jobVars, fileVars, vmVars,
                    predVars, missed >>

\* scripts/initialize_database.py with clear_existing: DELETE FROM customer_labels
ResetDatabase ==
    /\ \E c \in Customers : labels[c].has
    /\ labels' = [c \in Customers |-> NoLabel]
    /\ untrained' = {}
    /\ missed' = {}
    /\ job' = [job EXCEPT !.covered = {}]
    /\ UNCHANGED << lifeVars, callVars, now, schedVars, pc, instances, fire, cycles,
                    escaped, last_cycle, fileVars, vmVars, predVars >>

\* export_labeled_data_to_csv called on its own, with any arguments
CallExport ==
    /\ \E since \in {None} \cup (0..MaxTime), include_all \in BOOLEAN, db_ok \in BOOLEAN,
          tgt \in [Customers -> BOOLEAN] :
         LET res == ExportResult(since, include_all, db_ok)
             stats == ExportStats(res.rows, tgt)
         IN
         exp' = [called |-> TRUE, db_ok |-> db_ok, include_all |-> include_all,
                 since |-> since,
                 matched |-> Cardinality({ c \in Customers :
                                 /\ labels[c].has
                                 /\ (include_all \/ since = None
                                        \/ labels[c].created_at >= since
                                        \/ labels[c].updated_at >= since) }),
                 raised |-> res.raised, written |-> res.written, rows |-> res.rows,
                 total_records |-> res.total_records,
                 churned |-> stats.churned, not_churned |-> stats.not_churned]
    /\ UNCHANGED << lifeVars, retrain, metrics, summary, now, schedVars, jobVars,
                    fileVars, vmVars, predVars, dataVars >>

\* start_scheduler_once (before_request hook) -> scheduler.start()
BeforeRequest ==
    /\ HookRegistered(app)
    /\ ~enabled
    /\ timer_jobs' = AddJob(timer_jobs)
    /\ enabled' = TRUE
    /\ running' = TRUE
    /\ UNCHANGED << boots, stop_pc, status, callVars, now, last_training_time, training_count, app, version_manager,
                    jobVars, fileVars, vmVars, predVars, dataVars >>

\* the interval trigger fires; retrain_job runs up to the stats query
TimerFire ==
    /\ enabled /\ running
    /\ cycles < MaxCycles
    /\ IF ~CanSubmit(instances)
       THEN /\ fire' = "skipped"
            /\ UNCHANGED << lifeVars, callVars, now, schedVars, pc, job, instances, cycles, escaped, last_cycle,
                            fileVars, vmVars, predVars, dataVars >>
       ELSE /\ fire' = "run"
            /\ cycles' = cycles + 1
            /\ LET j == [IdleJob EXCEPT !.ltt0 = last_training_time,
                                         !.count0 = training_count,
                                         !.since = last_training_time,
                                         !.empty_window = EmptyWindow]
               IN  \E stats_ok \in BOOLEAN :
                     IF ~app
                     THEN /\ EndCycle("no_app", j, FALSE, FALSE)
                          /\ instances' = instances
                     ELSE IF ~stats_ok
                     THEN /\ EndCycle("stats_failed", j, FALSE, FALSE)
                          /\ instances' = instances
                     ELSE IF NoLabeledData(TotalLabels)
                     THEN /\ EndCycle("no_labels", j, FALSE, FALSE)
                          /\ instances' = instances
                     ELSE /\ pc' = "export"
                          /\ job' = [j EXCEPT !.temp_csv = Sec(now)]
                          /\ instances' = instances + 1
                          /\ UNCHANGED << last_training_time, training_count, escaped,
                                          last_cycle, untrained >>
            /\ UNCHANGED << lifeVars, callVars, now, enabled, running, app, version_manager,
                            fileVars, vmVars, predVars, labels, missed >>

\* retrain_job lines 63-85: the export and the empty-window return
JobExport ==
    /\ pc = "export"
    /\ \E db_ok \in BOOLEAN :
         LET mode == ExportMode(last_training_time)
             res == ExportResult(mode.since, mode.include_all, db_ok)
             j   == [job EXCEPT !.since = mode.since,
                                !.exported = TRUE,
                                !.include_all = mode.include_all,
                                !.no_data = (db_ok /\ mode.include_all /\ TotalLabels = 0),
                                !.rows = res.rows,
                                !.covered = res.rows,
                                !.empty_window = EmptyWindow]
             written == IF res.written THEN csv_files \cup {job.temp_csv} ELSE csv_files
         IN  /\ csv_files' = IF ~res.raised /\ SkipOnEmpty(res.total_records)
                             THEN written \ {job.temp_csv}
                             ELSE written
             /\ missed' = IF res.raised THEN missed ELSE untrained \ res.rows
             /\ IF res.raised
                THEN /\ EndCycle("export_failed", j, FALSE, FALSE)
                     /\ instances' = instances - 1
                ELSE IF SkipOnEmpty(res.total_records)
                THEN /\ EndCycle("no_new_data", j, FALSE, FALSE)
                     /\ instances' = instances - 1
                ELSE /\ pc' = "train"
                     /\ job' = j
                     /\ UNCHANGED << last_training_time, training_count, escaped,
                                     last_cycle, untrained, instances >>
    /\ UNCHANGED << lifeVars, callVars, now, enabled, running, app, version_manager, fire, cycles,
                    MODEL, SCALER, vmVars, predVars, labels >>

\* retrain_model lines 151-166: read the snapshot, fit and save the scalers
JobPreprocess ==
    /\ pc = "train"
    /\ \E ok \in BOOLEAN :
         LET j == [job EXCEPT !.trainer_called = TRUE,
                              !.load_existing = LoadExisting(MODEL, last_training_time)]
         IN  IF ok /\ job.temp_csv \in csv_files
             THEN /\ SCALER' = cycles + Shipped
                  /\ pc' = "fit"
                  /\ job' = j
                  /\ UNCHANGED << last_training_time, training_count, escaped,
                                  last_cycle, untrained, instances >>
             ELSE /\ EndCycle("trainer_failed", j, FALSE, FALSE)
                  /\ instances' = instances - 1
                  /\ UNCHANGED SCALER
    /\ UNCHANGED << lifeVars, callVars, now, enabled, running, app, version_manager, fire, cycles,
                    MODEL, csv_files, vmVars, predVars, labels, missed >>

\* retrain_model lines 168-248: load or build, fit, model.save(MODEL_PATH)
JobFit ==
    /\ pc = "fit"
    /\ \E ok \in BOOLEAN :
         IF ok
         THEN /\ MODEL' = cycles + Shipped
              /\ pc' = "version"
              /\ UNCHANGED << job, last_training_time, training_count, escaped,
                              last_cycle, untrained, instances >>
         ELSE /\ EndCycle("trainer_failed", job, FALSE, FALSE)
              /\ instances' = instances - 1
              /\ UNCHANGED MODEL
    /\ UNCHANGED << lifeVars, callVars, now, enabled, running, app, version_manager, fire, cycles,
                    SCALER, csv_files, vmVars, predVars, labels, missed >>

\* retrain_job lines 100-156: version the result, update tracking, clean up
JobVersion ==
    /\ pc = "version"
    /\ version_manager => ClockMovedOn(metadata, now)
    /\ \E failAt \in FailPoints(metadata, MODEL # NoFile /\ SCALER # NoFile),
          cleanup_ok \in BOOLEAN :
         LET r == SaveNewVersion(metadata, version_dirs, now, MODEL,
                                 TrainingMode(last_training_time), failAt) IN
         /\ IF version_manager
            THEN /\ metadata' = r.metadata
                 /\ version_dirs' = r.version_dirs
                 /\ evicted' = evicted \cup r.evicted
                 /\ saves' = saves + 1
                 /\ save_failed' = (save_failed \/ r.raised)
                 /\ last_save' = LastSave(r, failAt)
            ELSE UNCHANGED vmVars
         /\ EndCycle(VersioningOutcome(version_manager /\ r.raised), job,
                     version_manager /\ ~r.raised, version_manager /\ r.raised)
         /\ instances' = instances - 1
         /\ csv_files' = IF cleanup_ok THEN csv_files \ {job.temp_csv} ELSE csv_files
    /\ UNCHANGED << lifeVars, callVars, now, enabled, running, app, version_manager, fire, cycles,
                    MODEL, SCALER, predVars, labels, missed >>

\* predict() lines 88-98: resolve the default paths, load the model
PredictLoadModel ==
    /\ ppc = "idle"
    /\ predicts < MaxPredicts
    /\ predicts' = predicts + 1
    /\ IF MODEL = NoFile
       THEN /\ pred' = Predict(MODEL, SCALER)
            /\ UNCHANGED << ppc, p_model >>
       ELSE /\ p_model' = MODEL
            /\ ppc' = "scale"
            /\ UNCHANGED pred
    /\ UNCHANGED << lifeVars, callVars, now, schedVars, jobVars, fileVars, vmVars, dataVars >>

\* predict() lines 100-120: preprocess_with_scalers loads the scalers, then predict
PredictScale ==
    /\ ppc = "scale"
    /\ pred' = Predict(p_model, SCALER)
    /\ ppc' = "idle"
    /\ p_model' = NoFile
    /\ UNCHANGED << lifeVars, callVars, now, schedVars, jobVars, fileVars, vmVars, dataVars, predicts >>

\* the wall clock advances (between direct save_new_version calls)
VMTick ==
    /\ now < MaxVMTime
    /\ now' = now + 1
    /\ UNCHANGED << lifeVars, callVars, schedVars, jobVars, fileVars, vmVars, predVars, dataVars >>

\* a direct save_new_version call (as scripts/train_from_db.py makes)
VMSave ==
    /\ saves < MaxSaves
    /\ ClockMovedOn(metadata, now)
    /\ \E failAt \in FailPoints(metadata, MODEL # NoFile /\ SCALER # NoFile) :
         LET r == SaveNewVersion(metadata, version_dirs, now, saves + Shipped,
                                 "initial", failAt) IN
         /\ metadata' = r.metadata
         /\ version_dirs' = r.version_dirs
         /\ evicted' = evicted \cup r.evicted
         /\ saves' = saves + 1
         /\ save_failed' = (save_failed \/ r.raised)
         /\ last_save' = LastSave(r, failAt)
    /\ UNCHANGED << lifeVars, callVars, now, schedVars, jobVars, fileVars, predVars, dataVars >>

\* the process ends (a job in flight dies with it) and a new one starts:
\* IntegratedRetrainingScheduler() is built again and init_scheduler(app) runs
Restart ==
    /\ boots < MaxBoots
    /\ boots' = boots + 1
    /\ LET r == RestoredTracking(metadata, app) IN
         /\ last_training_time' = r.ltt
         /\ training_count' = r.count
    /\ enabled' = FALSE
    /\ running' = FALSE
    /\ version_manager' = app
    /\ pc' = "idle"
    /\ job' = IdleJob
    /\ instances' = 0
    /\ fire' = "none"
    /\ last_cycle' = NoCycle
    /\ stop_pc' = "idle"
    /\ timer_jobs' = 0
    /\ UNCHANGED << now, app, cycles, escaped, fileVars, vmVars, predVars, dataVars,
                    status, callVars >>

\* stop() lines 191-192: scheduler.shutdown() marks the scheduler stopped, so no
\* trigger fires any more, and then waits for the job that is running
StopCall ==
    /\ stop_pc # "shutdown"
    /\ enabled /\ running
    /\ running' = FALSE
    /\ stop_pc' = "shutdown"
    /\ UNCHANGED << boots, timer_jobs, status, callVars, now, last_training_time,
                    training_count, enabled, app, version_manager, jobVars, fileVars, vmVars, predVars,
                    dataVars >>

\* stop() lines 192-194: shutdown() returns once no job runs; enabled = False
StopReturn ==
    /\ stop_pc = "shutdown"
    /\ pc = "idle"
    /\ enabled' = FALSE
    /\ stop_pc' = "returned"
    /\ UNCHANGED << boots, timer_jobs, status, callVars, now, last_training_time,
                    training_count, running, app, version_manager, jobVars, fileVars, vmVars, predVars,
                    dataVars >>

\* the trigger fires in a scheduler that was shut down and started again, and
\* the executor, whose pool shutdown() closed, refuses the job: whether it does
\* is the scheduling library's matter, so TimerFire stays enabled beside this
TimerRejected ==
    /\ enabled /\ running
    /\ stop_pc = "returned"
    /\ fire # "rejected"
    /\ fire' = "rejected"
    /\ UNCHANGED << lifeVars, callVars, now, schedVars, pc, job, instances, cycles,
                    escaped, last_cycle, fileVars, vmVars, predVars, dataVars >>

\* GET /api/scheduler/health: get_status(), then the verdict and its HTTP code
HealthCheck ==
    /\ LET st == GetStatus(enabled, running)
           is_healthy == IsHealthy(st)
       IN  status' = [asked |-> TRUE, enabled |-> st.enabled, running |-> st.running,
                      next_run_time |-> st.next_run_time,
                      healthy |-> is_healthy, code |-> HttpCode(is_healthy),
                      timer |-> running, lifecycle |-> Lifecycle]
    /\ UNCHANGED << boots, stop_pc, timer_jobs, callVars, now, schedVars, jobVars, fileVars, vmVars,
                    predVars, dataVars >>

\* save_new_version stores the metrics dict the caller passed: each key may be
\* there or not, with any value
StoreMetrics ==
    /\ ~metrics.stored
    /\ \E val \in [MetricNames -> {None} \cup MetricValues],
          train \in [MetricNames -> {None} \cup MetricValues] :
         metrics' = [val |-> val, train |-> train, stored |-> TRUE]
    /\ UNCHANGED << lifeVars, exp, retrain, summary, now, schedVars, jobVars, fileVars,
                    vmVars, predVars, dataVars >>

\* get_version_summary() over the stored version
Summarize ==
    /\ metrics.stored
    /\ ~summary.done
    /\ summary' = [done |-> TRUE, value |-> GetVersionSummary(metrics)]
    /\ UNCHANGED << lifeVars, exp, retrain, metrics, now, schedVars, jobVars, fileVars,
                    vmVars, predVars, dataVars >>

\* retrain_model called on its own (scripts/train_model.py, the tests), with
\* any snapshot
CallRetrain ==
    /\ retrain.calls < MaxRetrains
    /\ \E snapshot \in Snapshots, failAt \in {"none", "preprocess", "fit"} :
         LET r == RetrainModel(snapshot, failAt, MODEL, SCALER,
                               Shipped + retrain.calls + 1)
         IN  /\ MODEL' = r.MODEL
             /\ SCALER' = r.SCALER
             /\ retrain' = [calls |-> retrain.calls + 1, snapshot |-> snapshot,
                            error |-> r.error,
                            model_before |-> MODEL, scaler_before |-> SCALER]
    /\ UNCHANGED << lifeVars, exp, metrics, summary, now, schedVars, jobVars, csv_files,
                    vmVars, predVars, dataVars >>

\* predict(input_data, model_path, scaler_path) called on its own: each path
\* is the default one or a path where no file is
CallPredict ==
    /\ ppc = "idle"
    /\ predicts < MaxPredicts
    /\ predicts' = predicts + 1
    /\ \E default_model \in BOOLEAN, default_scaler \in BOOLEAN :
         pred' = Predict(IF default_model THEN MODEL ELSE NoFile,
                         IF default_scaler THEN SCALER ELSE NoFile)
    /\ UNCHANGED << lifeVars, callVars, now, schedVars, jobVars, fileVars, vmVars,
                    dataVars, ppc, p_model >>

\* ------------------------------------------------------- specifications
\* the scheduler with its label store, clock and version manager
Next ==
    \/ Tick
    \/ AddLabel
    \/ BeforeRequest
    \/ TimerFire
    \/ JobExport
    \/ JobPreprocess
    \/ JobFit
    \/ JobVersion

Spec == Init /\ [][Next]_vars

\* the scheduler next to the prediction-serving path
NextServe ==
    \/ AddLabel
    \/ BeforeRequest
    \/ TimerFire
    \/ JobExport
    \/ JobPreprocess
    \/ JobFit
    \/ JobVersion
    \/ PredictLoadModel
    \/ PredictScale

SpecServe == Init /\ [][NextServe]_vars

\* the version manager driven directly
NextVM ==
    \/ VMTick
    \/ VMSave

SpecVM == Init /\ [][NextVM]_vars

\* the scheduler over process restarts
NextBoot ==
    \/ Tick
    \/ LoadLabels
    \/ BeforeRequest
    \/ TimerFire
    \/ JobExport
    \/ JobPreprocess
    \/ JobFit
    \/ JobVersion
    \/ Restart

SpecBoot == Init /\ [][NextBoot]_vars

\* the scheduler's life in one process: started, asked for its health, stopped
NextLife ==
    \/ LoadLabels
    \/ BeforeRequest
    \/ TimerFire
    \/ JobExport
    \/ JobPreprocess
    \/ JobFit
    \/ JobVersion
    \/ TimerRejected
    \/ StopCall
    \/ StopReturn
    \/ HealthCheck

SpecLife == Init /\ [][NextLife]_vars

\* the scheduler's life over process restarts
NextArm ==
    \/ LoadLabels
    \/ BeforeRequest
    \/ TimerFire
    \/ JobExport
    \/ JobPreprocess
    \/ JobFit
    \/ JobVersion
    \/ StopCall
    \/ StopReturn
    \/ HealthCheck
    \/ Restart

SpecArm == Init /\ [][NextArm]_vars

\* a cycle ends at this step
CycleEnds == pc' = "idle" /\ (pc # "idle" \/ cycles' # cycles)

\* the failures stop: the database, the Trainer and the version manager work
\* again before the cycles the model follows (MaxCycles) are used up
FailuresStop ==
    (CycleEnds /\ last_cycle'.outcome \in Failures) => cycles' < MaxCycles

\* the scheduler retrying while the clock runs, the timer fires and the job's
\* thread is scheduled (weak fairness), with failures that stop
NextRetry ==
    \/ Tick
    \/ LoadLabels
    \/ BeforeRequest
    \/ TimerFire /\ FailuresStop
    \/ JobExport /\ FailuresStop
    \/ JobPreprocess /\ FailuresStop
    \/ JobFit /\ FailuresStop
    \/ JobVersion /\ FailuresStop

SpecRetry ==
    /\ Init
    /\ [][NextRetry]_vars
    /\ WF_vars(Tick)
    /\ WF_vars(TimerFire /\ FailuresStop)
    /\ WF_vars(JobExport /\ FailuresStop)
    /\ WF_vars(JobPreprocess /\ FailuresStop)
    /\ WF_vars(JobFit /\ FailuresStop)
    /\ WF_vars(JobVersion /\ FailuresStop)

\* the exporter, called by the scheduler and on its own, over a database that
\* can be cleared
NextExport ==
    \/ LoadLabels
    \/ ResetDatabase
    \/ CallExport
    \/ BeforeRequest
    \/ TimerFire
    \/ JobExport
    \/ JobPreprocess
    \/ JobFit
    \/ JobVersion

SpecExport == Init /\ [][NextExport]_vars

\* the exporter called on its own while labels are written and time passes
NextWindow ==
    \/ Tick
    \/ AddLabel
    \/ CallExport

SpecWindow == Init /\ [][NextWindow]_vars

\* the summary of a stored version
NextSummary ==
    \/ StoreMetrics
    \/ Summarize

SpecSummary == Init /\ [][NextSummary]_vars

\* the model interface called on its own
NextArtifacts ==
    \/ CallRetrain
    \/ CallPredict

SpecArtifacts == Init /\ [][NextArtifacts]_vars

\* ================================================================ claims

\* C1: if the Trainer raises during a cycle, training_count and
\* last_training_time are unchanged after that cycle, and the next cycle's export
\* uses the same high-water mark and exports the failed cycle's rows again.
C1_FailureIsolation ==
    /\ last_cycle.outcome = "trainer_failed" => ~last_cycle.advanced
    /\ (last_cycle.outcome = "trainer_failed" /\ pc = "idle")
          => last_training_time = last_cycle.since
    /\ (last_cycle.outcome = "trainer_failed" /\ pc \in {"train", "fit", "version"})
          => (job.since = last_cycle.since /\ last_cycle.rows \subseteq job.rows)

\* a cycle whose Trainer raised was followed by a cycle that exported again
C1_Witness ==
    /\ last_cycle.outcome = "trainer_failed"
    /\ last_cycle.rows # {}
    /\ pc = "train"
    /\ job.rows # {}

C3_NoLabelLeftOut ==
    missed = {}

\* C4: after any cycle the current scaler and the current model come from the
\* same training run.
C4_PairFromSameRun ==
    pc = "idle" => MODEL = SCALER

\* C5: the model and the scaler a prediction loads belong to the same pair.
C5_PredictionUsesOnePair ==
    pred.status = "ok" => pred.model = pred.scaler

SortedDesc(md) ==
    \A i \in 1..(Len(md) - 1) : md[i].timestamp >= md[i + 1].timestamp

\* C6: after every sequence of successful save_new_version calls the list has at
\* most max_versions records, is sorted newest first, every listed version's
\* files exist and every evicted version's files are gone.
C6_VersionRetention ==
    ~save_failed =>
        /\ Len(metadata) <= max_versions
        /\ SortedDesc(metadata)
        /\ \A i \in DOMAIN metadata : version_dirs[DirOf(metadata[i])] = "files"
        /\ \A e \in evicted : version_dirs[DirOf(e)] = "none"

C8_SingleJob ==
    /\ instances <= 1
    /\ (pc # "idle") <=> (instances = 1)

\* the timer fired while a job was running and the run was skipped
C8_Witness ==
    fire = "skipped" /\ pc # "idle" /\ instances = 1

\* C9: with last_training_time set and no label written since, retrain_job ends
\* without calling the Trainer, without a new version, tracking unchanged.
C9_EmptyWindowShortCircuit ==
    last_cycle.empty_window =>
        /\ ~last_cycle.trainer_called
        /\ ~last_cycle.version_saved
        /\ ~last_cycle.version_failed
        /\ ~last_cycle.advanced

\* a cycle ran on an empty window after an earlier successful one
C9_Witness ==
    /\ last_cycle.empty_window
    /\ last_cycle.outcome = "no_new_data"
    /\ training_count = 1

\* C10: whatever step of a cycle fails, no exception leaves retrain_job, the
\* timer stays armed, and no artifact the serving path reads disappears.
C10_FailuresContained ==
    [][ (pc' # pc \/ cycles' # cycles) =>
           /\ ~escaped'
           /\ enabled' = enabled
           /\ running' = running
           /\ (MODEL # NoFile => MODEL' # NoFile)
           /\ (SCALER # NoFile => SCALER' # NoFile) ]_vars

\* a cycle failed in the Trainer and the scheduler is idle and armed again
C10_Witness ==
    /\ last_cycle.outcome = "trainer_failed"
    /\ pc = "idle"
    /\ enabled /\ running
    /\ ~escaped

\* C11: a starting process with at least one stored VersionRecord takes
\* last_training_time from the timestamp of the latest one and training_count
\* from the stored records; with no record it starts with last_training_time
\* absent and training_count 0, and its first cycle exports everything.
C11_RestoreOnStart ==
    [][ /\ (boots' # boots /\ app) =>
              IF metadata # << >>
              THEN /\ \A i \in DOMAIN metadata :
                        last_training_time' >= metadata[i].timestamp
                   /\ \E i \in DOMAIN metadata :
                        last_training_time' = metadata[i].timestamp
                   /\ training_count' = Len(metadata)
              ELSE /\ last_training_time' = None
                   /\ training_count' = 0
        /\ (pc = "export" /\ pc' # "export" /\ boots' = boots
                /\ last_cycle = NoCycle /\ metadata = << >>)
              => (last_cycle'.include_all \/ job'.include_all) ]_vars

\* a process started from two stored records whose latest is off the second
C11_Witness ==
    /\ boots = 1
    /\ last_cycle = NoCycle
    /\ Len(metadata) = 2
    /\ training_count = 2
    /\ last_training_time = metadata[1].timestamp
    /\ last_training_time % TicksPerSec # 0

\* C12: once stop() has been called no further retraining cycle is started and
\* nothing, a later inbound request included, arms the timer again; the call
\* itself leaves a cycle that is in flight alone.
C12_NoCycleAfterStop ==
    [][ /\ stop_pc # "idle" => (cycles' = cycles /\ ~running')
        /\ (stop_pc' = "shutdown" /\ stop_pc # "shutdown") => (pc' = pc /\ job' = job) ]_vars

C14_EmptyExport ==
    /\ (exp.called /\ exp.db_ok /\ exp.matched = 0) =>
          IF exp.include_all
          THEN exp.raised /\ ~exp.written
          ELSE ~exp.raised /\ exp.total_records = 0 /\ ~exp.written
    /\ last_cycle.no_data =>
          /\ last_cycle.outcome = "export_failed"
          /\ ~last_cycle.advanced
          /\ ~last_cycle.trainer_called

\* an incremental call matched nothing and returned, and a first cycle found the
\* labels gone between its stats query and its full export
C14_Witness ==
    /\ exp.called /\ exp.db_ok /\ exp.matched = 0 /\ ~exp.include_all
    /\ \E c \in Customers : labels[c].has
    /\ last_cycle.no_data
    /\ last_cycle.outcome = "export_failed"
    /\ pc = "idle"

\* C15: get_latest_version returns the stored record with the greatest
\* timestamp, or None when nothing is stored; list_versions is ordered newest
\* first; right after save_new_version returned r, get_latest_version gives r.
C15_LatestVersion ==
    LET latest == GetLatestVersion(metadata) IN
    /\ metadata = << >> => latest = NoRecord
    /\ metadata # << >> =>
          /\ \E i \in DOMAIN metadata : metadata[i] = latest
          /\ \A i \in DOMAIN metadata : latest.timestamp >= metadata[i].timestamp
    /\ SortedDesc(ListVersions(metadata))
    /\ last_save.returned => latest = last_save.record

\* a fourth save returned: the list is full, a record was evicted, and the
\* latest version is the record just returned
C15_Witness ==
    /\ Len(metadata) = max_versions
    /\ evicted # {}
    /\ last_save.returned
    /\ last_save.record.timestamp = now
    /\ GetLatestVersion(metadata) = last_save.record

\* C16: for each of accuracy, auc, recall and precision the summary reports the
\* validation metric whenever its key is in the version's metrics, whatever
\* its value (0 included), and the training-only metric only when it is not.
C16_ValidationMetricPreferred ==
    summary.done =>
        \A n \in MetricNames :
            summary.value[n] = (IF metrics.val[n] # None THEN metrics.val[n]
                                ELSE metrics.train[n])

\* C17: retrain_model raises FileNotFoundError when the snapshot file does not
\* exist and ValueError when the snapshot has no target column, and in both
\* cases the model artifact and the scaler artifact are as they were.
C17_RetrainInputErrors ==
    retrain.calls > 0 =>
        /\ retrain.snapshot = "absent" => retrain.error = "FileNotFoundError"
        /\ retrain.snapshot = "no_target" => retrain.error = "ValueError"
        /\ retrain.snapshot \in {"absent", "no_target"} =>
              /\ MODEL = retrain.model_before
              /\ SCALER = retrain.scaler_before

\* a call on a snapshot without target column raised ValueError after an
\* earlier call had written both artifacts, and these are still in place
C17_Witness ==
    /\ retrain.calls = 2
    /\ retrain.snapshot = "no_target"
    /\ retrain.error = "ValueError"
    /\ MODEL = Shipped + 1
    /\ SCALER = Shipped + 1

\* C18: predict raises "Model file not found" when the model artifact is absent
\* and "Scaler file not found" when the model is there and the scaler artifact
\* is absent; in neither case does it return a prediction.
C18_PredictMissingArtifact ==
    pred.status # "none" =>
        /\ pred.model_file = NoFile => pred.status = "model_not_found"
        /\ (pred.model_file # NoFile /\ pred.scaler_file = NoFile) =>
              pred.status = "scaler_not_found"
        /\ pred.status \in {"model_not_found", "scaler_not_found"} =>
              (pred.model = NoFile /\ pred.scaler = NoFile)
        /\ pred.status = "ok" => (pred.model_file # NoFile /\ pred.scaler_file # NoFile)

\* a call found its model and no scaler
C18_Witness ==
    /\ pred.status = "scaler_not_found"
    /\ pred.model_file # NoFile
    /\ pred.scaler_file = NoFile
    /\ MODEL # NoFile

\* C19 (as stated): the Trainer is called with load_existing = False exactly in
\* a cycle that starts with last_training_time absent, the record of a cycle
\* has training_mode "initial" exactly then and "incremental" otherwise, and
\* training_count is 1 after the first successful cold-start cycle.
C19_ColdStartBuildsModel ==
    /\ pc = "fit" => (job.load_existing <=> job.ltt0 # None)
    /\ last_cycle.version_saved =>
          metadata[1].training_mode = (IF last_cycle.cold THEN "initial" ELSE "incremental")
    /\ (last_cycle.outcome = "success" /\ last_cycle.cold) => training_count = 1

\* C19 (amended): the Trainer is called with load_existing = True exactly when
\* a model artifact exists at the call, whatever last_training_time is; the
\* record of a cycle has training_mode "initial" exactly when the cycle started
\* with last_training_time absent and "incremental" otherwise; training_count
\* is 1 after the first successful cold-start cycle.
C19_LoadExistingFollowsModelFile ==
    /\ pc = "fit" => (job.load_existing <=> MODEL # NoFile)
    /\ last_cycle.version_saved =>
          metadata[1].training_mode = (IF last_cycle.cold THEN "initial" ELSE "incremental")
    /\ (last_cycle.outcome = "success" /\ last_cycle.cold) => training_count = 1

\* a cold-start cycle that found a model artifact and loaded it has saved its
\* record as "initial" and has been counted
C19_Witness ==
    /\ last_cycle.outcome = "success"
    /\ last_cycle.cold
    /\ last_cycle.load_existing
    /\ last_cycle.version_saved
    /\ metadata[1].training_mode = "initial"
    /\ metadata[1].run > Shipped
    /\ training_count = 1

\* C20: the export mode of a cycle follows from last_training_time alone: absent,
\* the cycle exports everything (include_all = True); set, it exports with
\* since = last_training_time and include_all = False.
C20_ExportMode ==
    /\ pc \in {"train", "fit", "version"} =>
          /\ job.include_all <=> (job.ltt0 = None)
          /\ job.since = job.ltt0
          /\ job.ltt0 = last_training_time
    /\ last_cycle.exported =>
          /\ last_cycle.include_all <=> last_cycle.cold
          /\ last_cycle.since_is_mark

\* a second cycle exported incrementally from the mark the first one left
C20_Witness ==
    /\ pc = "train"
    /\ training_count = 1
    /\ ~job.include_all
    /\ job.since = last_training_time
    /\ job.since # None
    /\ last_cycle.exported /\ last_cycle.include_all

\* C21: a cycle that finds no label in storage ends without error and calls
\* neither the exporter nor the Trainer nor the version manager;
\* last_training_time, training_count, the artifact pair and the version list
\* are as they were.
C21_NoLabelsNoWork ==
    [][ (cycles' # cycles /\ app /\ TotalLabels = 0) =>
           /\ last_cycle'.outcome \in {"no_labels", "stats_failed"}
           /\ pc' = "idle"
           /\ ~escaped'
           /\ ~last_cycle'.exported
           /\ ~last_cycle'.trainer_called
           /\ ~last_cycle'.version_saved /\ ~last_cycle'.version_failed
           /\ last_training_time' = last_training_time
           /\ training_count' = training_count
           /\ MODEL' = MODEL /\ SCALER' = SCALER
           /\ csv_files' = csv_files
           /\ metadata' = metadata /\ version_dirs' = version_dirs
           /\ saves' = saves ]_vars

\* the labels were deleted after a first successful cycle, and the next cycle
\* found nothing and left the mark, the count, the pair and the list alone
C21_Witness ==
    /\ last_cycle.outcome = "no_labels"
    /\ pc = "idle"
    /\ TotalLabels = 0
    /\ training_count = 1
    /\ last_training_time # None
    /\ Len(metadata) = 1
    /\ MODEL > Shipped
    /\ cycles = 2

\* C22: an incremental export with since = T holds one row for each labeled
\* customer whose label was created or updated at or after T and no other row,
\* a label created before T and updated at or after T included; total_records
\* is the number of rows and is churned + not_churned.
C22_IncrementalRows ==
    [][ (exp' # exp /\ exp'.db_ok /\ ~exp'.include_all /\ exp'.since # None) =>
           LET T == exp'.since IN
           /\ exp'.rows = { c \in Customers :
                               /\ labels[c].has
                               /\ (labels[c].created_at >= T \/ labels[c].updated_at >= T) }
           /\ \A c \in Customers :
                 (labels[c].has /\ labels[c].created_at < T /\ labels[c].updated_at >= T)
                    => c \in exp'.rows
           /\ ~exp'.raised
           /\ exp'.written <=> (exp'.rows # {})
           /\ exp'.total_records = Cardinality(exp'.rows)
           /\ exp'.total_records = exp'.churned + exp'.not_churned ]_vars

\* an incremental export picked up a churned label that was created before its
\* since and updated after it
C22_Witness ==
    /\ exp.called /\ exp.db_ok /\ ~exp.include_all
    /\ exp.since > 0
    /\ \E c \in exp.rows :
          /\ labels[c].created_at < exp.since
          /\ labels[c].updated_at >= exp.since
    /\ exp.churned = 1
    /\ exp.total_records = 1

\* C23: neither building the scheduler nor init_scheduler arms the timer; with
\* retraining disabled in the configuration no cycle ever runs and the status
\* keeps enabled = false; with it enabled the timer is armed by the first
\* inbound request and by nothing else, and the job store holds exactly one
\* timer job from then on, whatever requests follow.
C23_LazyStart ==
    /\ []( /\ ~app => ( /\ ~enabled /\ ~running
                         /\ cycles = 0 /\ timer_jobs = 0
                         /\ ~GetStatus(enabled, running).enabled
                         /\ (status.asked => ~status.enabled) )
           /\ enabled => timer_jobs = 1
           /\ timer_jobs <= 1
           /\ (running /\ stop_pc = "idle") => (enabled /\ timer_jobs = 1) )
    /\ [][ /\ boots' # boots => (~enabled' /\ ~running' /\ timer_jobs' = 0)
           /\ (running' /\ ~running) =>
                 /\ app /\ ~enabled /\ enabled'
                 /\ boots' = boots
                 /\ timer_jobs' = 1
                 /\ (stop_pc = "idle" => timer_jobs = 0)
           /\ cycles' # cycles => (enabled /\ running /\ timer_jobs = 1) ]_vars

\* a restarted process has restored its tracking from a stored version, its
\* first request has armed the one timer job, and a cycle runs
C23_Witness ==
    /\ boots = 1
    /\ app
    /\ enabled /\ running
    /\ timer_jobs = 1
    /\ stop_pc = "idle"
    /\ training_count = 1
    /\ pc = "export"

\* C24: when a save_new_version call fails after it has copied the artifacts
\* and before it has written the metadata, the stored version list is as it was
\* and no record of it points at the directory the copies are in.
C24_OrphansUnreferenced ==
    last_save.failed = "after_copy" =>
        /\ version_dirs[last_save.dir] = "files"
        /\ \A i \in DOMAIN metadata : DirOf(metadata[i]) # last_save.dir

\* C25: whatever step of a save_new_version call fails, the stored version list
\* holds no record whose directory has been deleted.
C25_EvictionAtomic ==
    \A i \in DOMAIN metadata : version_dirs[DirOf(metadata[i])] # "none"

\* C26: whatever the outcome of a cycle (success, empty export, Trainer failure,
\* versioning failure), the snapshot file it created is gone when it ends: no
\* snapshot file is left while no cycle runs.
C26_SnapshotDeleted ==
    pc = "idle" => csv_files = {}

\* labeled data is pending: some label lies in the window of the next export
PendingData == TotalLabels > 0 /\ ~EmptyWindow

C28_EnabledIffRunning ==
    /\ enabled <=> running
    /\ status.asked => ~(status.enabled /\ ~status.running)

\* C29: training_count never goes down, over successful cycles and over process
\* restarts: the count a restarted process restores is at least the count the
\* process before it had reached.
C29_CountNeverDecreases ==
    [][ training_count' >= training_count ]_vars

\* C30: the record a successful save_new_version call returns is in the stored
\* list after the call; no two stored records share a version_id or a
\* directory, saves within one clock second included; and no evicted version's
\* directory is that of a version still listed.
C30_DistinctVersions ==
    /\ last_save.returned => \E i \in DOMAIN metadata : metadata[i] = last_save.record
    /\ \A i, k \in DOMAIN metadata :
          i # k => /\ metadata[i].version_id # metadata[k].version_id
                   /\ DirOf(metadata[i]) # DirOf(metadata[k])
    /\ \A e \in evicted : \A i \in DOMAIN metadata : DirOf(e) # DirOf(metadata[i])

====
